---- MODULE Spec2Model ----
(***************************************************************************)
(* A model of the Moneycontrol forum pipeline: the three scraping          *)
(* backends (scraper.py, selenium_scraper.py, api_scraper.py), the         *)
(* sentiment scorer (sentiment.py) and the orchestrator (pipeline.py).     *)
(*                                                                         *)
(* Python strings are sequences of one-character strings, so that          *)
(* clean_text, the regular expressions and int() are computed and not      *)
(* assumed.  Python's None is the one-element sequence None, which no      *)
(* string of characters equals.                                            *)
(***************************************************************************)
EXTENDS Integers, Sequences, FiniteSets, TLC

VARIABLES
  \* ---- run_pipeline (pipeline.py) ----
  backend,        \* "requests" | "selenium" | "api" | "-" (no backend running)
  urls,           \* the urls argument
  idx,            \* enumerate(urls, 1): number of URLs taken from urls so far
  pc,             \* position of run_pipeline
  page_count,     \* pages yielded for the current URL
  all_posts,      \* the run-wide list of enriched posts
  failed_urls,    \* the list of failed URLs
  closed,         \* number of scraper.close() calls made
  quit_raised,    \* history: TRUE when driver.quit() raised inside close()
  propagated,     \* TRUE when an exception left run_pipeline
  result,         \* the returned dict, NoResult before the return
  attempted,      \* history: the URLs whose processing was started, in order
  raised,         \* history: the positions in urls whose processing raised
  \* ---- ApiMoneycontrolScraper.fetch_posts (api_scraper.py) ----
  apc,            \* position of fetch_posts
  feed,           \* the thread's messages held by the server
  limit_count,    \* self.limit_count
  max_messages,   \* self.max_messages
  offset,         \* the local offset
  posts,          \* the local posts list
  requests,       \* history: the limitStart of every request issued
  batches,        \* history: the batch every request returned
  \* ---- parse_posts of the page backends (scraper.py, selenium_scraper.py) ----
  ppc,            \* number of parse_posts calls made on the thread
  elements,       \* static backend: the matched elements of the last page
  text_nodes,     \* dynamic backend: the nodes matching POST_TEXT_SELECTOR
  heading_nodes,  \* dynamic backend: the nodes matching POST_HEADING_SELECTOR
  parsed,         \* the list the last parse_posts call returned
  prev_parsed,    \* static backend: the list the call before it returned
  seen_text,      \* static backend: seen_text at the end of the last call
  \* ---- parse_section_id (api_scraper.py) ----
  upc,            \* position of parse_section_id
  url,            \* its argument
  section_id,     \* its result: an integer, or ValueError
  \* ---- _scroll_to_load_more (selenium_scraper.py) ----
  spc,            \* position of _scroll_to_load_more
  scroll_max,     \* self.scroll_max
  scroll_limit,   \* self.scroll_limit
  attempts,       \* the local attempts
  loops,          \* the local loops
  last_height,    \* the local last_height
  last_count,     \* the local last_count
  dom_height,     \* the browser: document.body.scrollHeight
  dom_count,      \* the browser: number of elements matching POST_TEXT_SELECTOR
  scrolls,        \* history: per iteration, what the page did after the scroll
  \* ---- aggregate (pipeline.py) ----
  gpc,            \* position of aggregate
  agg_posts,      \* its argument
  summary,        \* its result
  \* ---- SentimentAnalyzer.score and simple_lexicon_score (sentiment.py) ----
  cpc,            \* position of the call: of score, or of simple_lexicon_score alone
  score_text,     \* the text argument of the call
  score_cleaned,  \* score: the local cleaned
  scorer_calls,   \* history: the arguments simple_lexicon_score was called with
  scored,         \* the dict the call returned
  \* ---- MoneycontrolScraper.fetch_pages (scraper.py) ----
  fpc,            \* position of the generator
  max_pages,      \* self.max_pages
  next_link,      \* the thread: per page, the page its next link leads to (0: none)
  current_url,    \* the local current_url (pages are numbered)
  range_idx,      \* number of values taken from range(self.max_pages)
  http_requests,  \* history: the page of every session.get issued
  yielded,        \* history: the pages yielded
  sleeps          \* history: number of time.sleep calls

varsPipe   == <<backend, urls, idx, pc, page_count, all_posts, failed_urls, closed,
                quit_raised, propagated, result, attempted, raised>>
varsApi    == <<apc, feed, limit_count, max_messages, offset, posts, requests, batches>>
varsParse  == <<ppc, elements, text_nodes, heading_nodes, parsed, prev_parsed, seen_text>>
varsUrl    == <<upc, url, section_id>>
varsScroll == <<spc, scroll_max, scroll_limit, attempts, loops, last_height, last_count,
                dom_height, dom_count, scrolls>>
varsAgg    == <<gpc, agg_posts, summary>>
varsSentiment == <<cpc, score_text, score_cleaned, scorer_calls, scored>>
varsPages  == <<fpc, max_pages, next_link, current_url, range_idx, http_requests,
                yielded, sleeps>>
vars       == <<varsPipe, varsApi, varsParse, varsUrl, varsScroll, varsAgg,
                varsSentiment, varsPages>>

(***************************************************************************)
(* Strings                                                                 *)
(***************************************************************************)
None == <<"<None>">>

\* Python truthiness of an Optional[str]: None and "" are falsy
Truthy(s) == s # None /\ s # <<>>

\* what the regular expression class \s matches
Whitespace == {" ", "\n", "\t"}

RECURSIVE CollapseWs(_)
\* re.sub(r"\s+", " ", text): every maximal run of whitespace becomes one space
CollapseWs(s) ==
  IF s = <<>> THEN <<>>
  ELSE IF Head(s) \in Whitespace
       THEN IF Len(s) > 1 /\ s[2] \in Whitespace
            THEN CollapseWs(Tail(s))
            ELSE <<" ">> \o CollapseWs(Tail(s))
       ELSE <<Head(s)>> \o CollapseWs(Tail(s))

RECURSIVE LStrip(_)
LStrip(s) == IF s # <<>> /\ Head(s) \in Whitespace THEN LStrip(Tail(s)) ELSE s

RECURSIVE RStrip(_)
RStrip(s) ==
  IF s # <<>> /\ s[Len(s)] \in Whitespace THEN RStrip(SubSeq(s, 1, Len(s) - 1)) ELSE s

\* str.strip()
Strip(s) == RStrip(LStrip(s))

\* clean_text(text): `text or ""` turns None into the empty string first
clean_text(text) == Strip(CollapseWs(IF text = None THEN <<>> ELSE text))

RECURSIVE JoinWith(_, _)
\* sep.join(parts)
JoinWith(sep, parts) ==
  IF parts = <<>> THEN <<>>
  ELSE IF Len(parts) = 1 THEN parts[1]
  ELSE parts[1] \o sep \o JoinWith(sep, Tail(parts))

RECURSIVE SelectTruthy(_)
SelectTruthy(parts) ==
  IF parts = <<>> THEN <<>>
  ELSE (IF Truthy(Head(parts)) THEN <<Head(parts)>> ELSE <<>>) \o SelectTruthy(Tail(parts))

RECURSIVE Concat(_)
\* the concatenation of a sequence of sequences
Concat(ss) == IF ss = <<>> THEN <<>> ELSE Head(ss) \o Concat(Tail(ss))

Min(a, b) == IF a <= b THEN a ELSE b
Max(a, b) == IF a >= b THEN a ELSE b

\* the record scraper.Post (post_id, author and posted_at are copied through by every
\* stage and read by none, and are left out)
Post(source_url, page_url, heading, text) ==
  [source_url |-> source_url, page_url |-> page_url, heading |-> heading, text |-> text]

(***************************************************************************)
(* sentiment.py.  A compound score (pos_hits - neg_hits) / sqrt(total) is   *)
(* the record [diff |-> pos_hits - neg_hits, total |-> total]; a ratio is   *)
(* the record [num, den].  The scorer modelled is the fallback lexicon      *)
(* scorer (self._vader is None).                                            *)
(***************************************************************************)
POSITIVE_WORDS ==
  { <<"b","u","y">>, <<"l","o","n","g">>, <<"u","p">>,
    <<"b","u","l","l">>, <<"b","u","l","l","i","s","h">>, <<"g","a","i","n">>,
    <<"g","a","i","n","s">>, <<"p","r","o","f","i","t">>, <<"p","r","o","f","i","t","s">>,
    <<"g","r","e","e","n">>, <<"s","t","r","o","n","g">>, <<"b","e","a","t">>,
    <<"b","e","a","t","s">>, <<"o","u","t","p","e","r","f","o","r","m">>, <<"g","r","e","a","t">>,
    <<"g","o","o","d">>, <<"p","o","s","i","t","i","v","e">>, <<"s","u","r","g","e">>,
    <<"r","a","l","l","y">> }

NEGATIVE_WORDS ==
  { <<"s","e","l","l">>, <<"s","h","o","r","t">>, <<"d","o","w","n">>,
    <<"b","e","a","r">>, <<"b","e","a","r","i","s","h">>, <<"l","o","s","s">>,
    <<"l","o","s","s","e","s">>, <<"r","e","d">>, <<"w","e","a","k">>,
    <<"m","i","s","s">>, <<"m","i","s","s","e","d">>,
    <<"u","n","d","e","r","p","e","r","f","o","r","m">>,
    <<"b","a","d">>, <<"n","e","g","a","t","i","v","e">>, <<"f","a","l","l">>,
    <<"p","l","u","n","g","e">>, <<"c","r","a","s","h">> }

\* the characters of the class [\\w'] of the pattern r"[\\w']+" in score: in a raw
\* string \\ is an escaped backslash, so the class holds the backslash, the letter w
\* and the apostrophe
ScoreTokenChars == {"\\", "w", "'"}

RECURSIVE RunsIn(_, _, _)
\* the maximal runs of characters of s that satisfy keep (cur is the run being read)
RunsIn(s, keep, cur) ==
  IF s = <<>> THEN (IF cur = <<>> THEN <<>> ELSE <<cur>>)
  ELSE IF Head(s) \in keep
       THEN RunsIn(Tail(s), keep, Append(cur, Head(s)))
       ELSE (IF cur = <<>> THEN <<>> ELSE <<cur>>) \o RunsIn(Tail(s), keep, <<>>)

RECURSIVE SplitWs(_, _)
\* str.split(): the maximal runs of non-whitespace characters
SplitWs(s, cur) ==
  IF s = <<>> THEN (IF cur = <<>> THEN <<>> ELSE <<cur>>)
  ELSE IF Head(s) \notin Whitespace
       THEN SplitWs(Tail(s), Append(cur, Head(s)))
       ELSE (IF cur = <<>> THEN <<>> ELSE <<cur>>) \o SplitWs(Tail(s), <<>>)

UpperCase == <<"A","B","C","D","E","F","G","H","I","J","K","L","M",
               "N","O","P","Q","R","S","T","U","V","W","X","Y","Z">>
LowerCase == <<"a","b","c","d","e","f","g","h","i","j","k","l","m",
               "n","o","p","q","r","s","t","u","v","w","x","y","z">>

LowerChar(c) ==
  IF \E i \in 1..Len(UpperCase) : UpperCase[i] = c
  THEN LowerCase[CHOOSE i \in 1..Len(UpperCase) : UpperCase[i] = c]
  ELSE c

\* str.lower()
Lower(s) == [i \in 1..Len(s) |-> LowerChar(s[i])]

CountIn(tokens, words) == Cardinality({i \in 1..Len(tokens) : tokens[i] \in words})

\* compound >= 0.05, i.e. diff / sqrt(total) >= 1/20
AtLeastThreshold(c) == c.diff > 0 /\ 400 * c.diff * c.diff >= c.total

\* compound <= -0.05
AtMostMinusThreshold(c) == c.diff < 0 /\ 400 * c.diff * c.diff >= c.total

label_from_compound(compound) ==
  IF AtLeastThreshold(compound) THEN "positive"
  ELSE IF AtMostMinusThreshold(compound) THEN "negative"
  ELSE "neutral"

simple_lexicon_score(text) ==
  LET raw      == SplitWs(text, <<>>)
      tokens   == [i \in 1..Len(raw) |-> Lower(raw[i])]
      total    == Max(Len(tokens), 1)
      pos_hits == CountIn(tokens, POSITIVE_WORDS)
      neg_hits == CountIn(tokens, NEGATIVE_WORDS)
      neu_hits == total - pos_hits - neg_hits
  IN  [compound |-> [diff |-> pos_hits - neg_hits, total |-> total],
       pos |-> [num |-> pos_hits, den |-> total],
       neg |-> [num |-> neg_hits, den |-> total],
       neu |-> [num |-> Max(neu_hits, 0), den |-> total]]

\* score line 29: cleaned = " ".join(re.findall(r"[\\w']+", text or ""))
Cleaned(text) ==
  JoinWith(<<" ">>, RunsIn(IF text = None THEN <<>> ELSE text, ScoreTokenChars, <<>>))

\* score line 31: the dict returned when cleaned is empty
FixedResult ==
  [compound |-> [diff |-> 0, total |-> 1],
   pos |-> [num |-> 0, den |-> 1], neg |-> [num |-> 0, den |-> 1],
   neu |-> [num |-> 1, den |-> 1], label |-> "neutral"]

\* score lines 42-44: the fallback scorer's dict with the label added
Fallback(cleaned_text) ==
  LET scores == simple_lexicon_score(cleaned_text)
  IN  [compound |-> scores.compound, pos |-> scores.pos, neg |-> scores.neg,
       neu |-> scores.neu, label |-> label_from_compound(scores.compound)]

\* SentimentAnalyzer.score
score(text) ==
  LET cleaned == Cleaned(text)
  IN  IF cleaned = <<>> THEN FixedResult ELSE Fallback(cleaned)

(***************************************************************************)
(* api_scraper.py                                                          *)
(***************************************************************************)
Digits == {"0", "1", "2", "3", "4", "5", "6", "7", "8", "9"}

DigitValue(c) ==
  CASE c = "0" -> 0 [] c = "1" -> 1 [] c = "2" -> 2 [] c = "3" -> 3 [] c = "4" -> 4
    [] c = "5" -> 5 [] c = "6" -> 6 [] c = "7" -> 7 [] c = "8" -> 8 [] c = "9" -> 9

RECURSIVE IntOf(_)
\* int(digits) of a non-empty string of decimal digits
IntOf(ds) ==
  IF Len(ds) = 1 THEN DigitValue(ds[1])
  ELSE 10 * IntOf(SubSeq(ds, 1, Len(ds) - 1)) + DigitValue(ds[Len(ds)])

\* the end of the maximal run of digits of s that starts at position i
DigitRunEnd(s, i) ==
  CHOOSE j \in i..Len(s) :
    /\ \A k \in i..j : s[k] \in Digits
    /\ (j = Len(s) \/ s[j + 1] \notin Digits)

\* the positions at which the pattern -([0-9]+)(?:\.html)? matches: a '-' followed by a
\* digit; the optional group matches the empty string when no ".html" follows
MatchStarts(s) == {i \in 1..(Len(s) - 1) : s[i] = "-" /\ s[i + 1] \in Digits}

\* the result of a call: a returned value, or the exception raised
Returned(v)  == [error |-> FALSE, value |-> v]
ValueError   == [error |-> TRUE,  value |-> 0]

\* re.search returns the leftmost match
FirstMatch(s) == CHOOSE i \in MatchStarts(s) : \A j \in MatchStarts(s) : i <= j

\* parse_section_id(url): group 1 of the leftmost match, as an integer
parse_section_id(u) ==
  IF MatchStarts(u) = {} THEN ValueError
  ELSE LET i == FirstMatch(u)
       IN  Returned(IntOf(SubSeq(u, i + 1, DigitRunEnd(u, i + 1))))

\* fetch_posts line 48: `if not heading and not text: continue`
ApiSkip(heading, text) == heading = <<>> /\ text = <<>>

\* a variant of the cap test that lets one more post through
CapReachedLate(cap, n) == cap # 0 /\ n > cap
\* fetch_posts line 61: `if self.max_messages and len(posts) >= self.max_messages`
CapReached(cap, n) == cap # 0 /\ n >= cap

\* the Post fetch_posts builds from one message (lines 46-59); a message of the model
\* has no urlThread, so page_url is start_url
ApiPost(msg, start_url) ==
  LET heading == clean_text(IF Truthy(msg.heading) THEN msg.heading ELSE <<>>)
      text    == clean_text(IF Truthy(msg.message) THEN msg.message ELSE <<>>)
  IN  Post(start_url, start_url, IF heading = <<>> THEN None ELSE heading, text)

\* the loop `for msg in batch` (lines 45-62): the posts list after it, and whether it
\* left fetch_posts by the return of line 62.  The loop appends the Post of every
\* message it does not skip, and returns at the first append after which the cap test
\* of line 61 holds.
ProcessBatch(batch, ps, start_url, cap) ==
  LET built == [i \in 1..Len(batch) |-> ApiPost(batch[i], start_url)]
      Kept(p) == ~ApiSkip(IF p.heading = None THEN <<>> ELSE p.heading, p.text)
      kept  == SelectSeq(built, Kept)
      hits  == {k \in 1..Len(kept) : CapReached(cap, Len(ps) + k)}
  IN  IF hits = {}
      THEN [posts |-> ps \o kept, capped |-> FALSE]
      ELSE LET k == CHOOSE h \in hits : \A g \in hits : h <= g
           IN  [posts |-> ps \o SubSeq(kept, 1, k), capped |-> TRUE]

\* the server's answer to {limitStart: start, limitCount: count}: that slice of the
\* thread's messages
ServerBatch(thread, start, count) ==
  SubSeq(thread, start + 1, Min(start + count, Len(thread)))

\* a variant that advances the offset by one message instead of one batch
NextOffsetByOne(off, count) == off + 1
\* line 64: offset += self.limit_count
NextOffset(off, count) == off + count

\* line 65: `if len(batch) < self.limit_count: break`
LastBatch(batch, count) == Len(batch) < count

\* one iteration of `while True` (lines 30-66) on the state st = [pc, offset, posts]
\* of fetch_posts, given the batch the request returned
ApiIteration(st, batch, start_url, count, cap) ==
  IF batch = <<>>
  THEN [st EXCEPT !.pc = "returned"]
  ELSE LET r == ProcessBatch(batch, st.posts, start_url, cap)
       IN  IF r.capped
           THEN [st EXCEPT !.pc = "returned", !.posts = r.posts]
           ELSE [pc     |-> IF LastBatch(batch, count) THEN "returned" ELSE "loop",
                 offset |-> NextOffset(st.offset, count),
                 posts  |-> r.posts]

(***************************************************************************)
(* scraper.py and selenium_scraper.py: parse_posts                         *)
(*                                                                         *)
(* A matched element of the static backend is the record                   *)
(*   [strings  |-> " ".join(el.stripped_strings),                          *)
(*    headings |-> the texts of the descendants whose attributes contain   *)
(*                 "heading" or "title", in document order].               *)
(* A node of the dynamic backend is its get_text(" ", strip=True).         *)
(***************************************************************************)
RECURSIVE _find_first_text(_)
\* the first non-empty cleaned text among the keyword-matching descendants, else None
_find_first_text(children) ==
  IF children = <<>> THEN None
  ELSE IF clean_text(Head(children)) # <<>> THEN clean_text(Head(children))
  ELSE _find_first_text(Tail(children))

\* MoneycontrolScraper.parse_posts line 65: `if not text or text in seen_text: continue`
StaticSkip(text, seen) == text = <<>> \/ text \in seen

\* a variant in which seen_text outlives the call
KeptSeenText(old) == old
\* line 62: seen_text = set(), whatever an earlier call collected
FreshSeenText(old) == {}

RECURSIVE StaticLoop(_, _, _, _, _)
\* the loop `for el in elements` (lines 63-83): the posts and seen_text after it
StaticLoop(els, ps, seen, page_url, source_url) ==
  IF els = <<>> THEN [posts |-> ps, seen_text |-> seen]
  ELSE LET text == clean_text(Head(els).strings)
       IN  IF StaticSkip(text, seen)
           THEN StaticLoop(Tail(els), ps, seen, page_url, source_url)
           ELSE StaticLoop(Tail(els),
                           Append(ps, Post(source_url, page_url,
                                           _find_first_text(Head(els).headings), text)),
                           seen \cup {text}, page_url, source_url)

\* MoneycontrolScraper.parse_posts; old_seen is the seen_text of the call before
static_parse_posts(els, old_seen, page_url, source_url) ==
  StaticLoop(els, <<>>, FreshSeenText(old_seen), page_url, source_url)

\* a variant without the test for an empty heading and body
SeleniumSkipNever(heading, body) == FALSE
\* SeleniumMoneycontrolScraper.parse_posts line 83: `if not heading and not body`
SeleniumSkip(heading, body) == ~Truthy(heading) /\ ~Truthy(body)

RECURSIVE SeleniumLoop(_, _, _, _, _, _)
\* the loop `for idx in range(count)` (lines 72-96), from index i (1-based)
SeleniumLoop(i, texts, headings, ps, page_url, source_url) ==
  IF i > Max(Len(texts), Len(headings)) THEN ps
  ELSE LET heading == IF i <= Len(headings) THEN clean_text(headings[i]) ELSE None
           body    == IF i <= Len(texts) THEN clean_text(texts[i]) ELSE <<>>
       IN  SeleniumLoop(i + 1, texts, headings,
                        IF SeleniumSkip(heading, body) THEN ps
                        ELSE Append(ps, Post(source_url, page_url, heading, body)),
                        page_url, source_url)

\* SeleniumMoneycontrolScraper.parse_posts
selenium_parse_posts(texts, headings, page_url, source_url) ==
  SeleniumLoop(1, texts, headings, <<>>, page_url, source_url)

(***************************************************************************)
(* Bounds and input sets                                                   *)
(***************************************************************************)
MaxFeed       == 4    \* messages a thread holds
MaxLimit      == 3    \* largest limit_count
MaxCap        == 2    \* largest max_messages
MaxElements   == 3    \* matched elements on a page
MaxNodes      == 2    \* text nodes, and heading nodes, on a rendered page
MaxPages      == 2    \* max_pages: pages fetched and parsed per thread
MaxUrls       == 2    \* length of the urls argument
MaxPosts      == 3    \* enriched posts handed to aggregate
MaxUrlLen     == 4    \* characters of a URL before its optional ".html"
MaxScrollMax  == 3    \* largest scroll_max
MaxScrollLimit == 5   \* largest scroll_limit

\* SeqsUpTo(S, n): the sequences over S of length at most n
SeqsUpTo(S, n) == UNION {[1..k -> S] : k \in 0..n}

\* messages of the feed: a body only, a heading only, and one whose heading and body
\* are both empty after cleaning
MsgBody    == [heading |-> None,      message |-> <<" ", "a">>]
MsgHeading == [heading |-> <<"h", " ">>, message |-> None]
MsgEmpty   == [heading |-> <<>>,      message |-> <<" ", "\n">>]
Messages   == {MsgBody, MsgHeading, MsgEmpty}

\* the scenario of the API pagination test: batches of 100, 100 and 40 messages
ScenarioBatchSizes == <<100, 100, 40>>
ScenarioLimit      == ScenarioBatchSizes[1]
ScenarioFeed       ==
  [i \in 1..(ScenarioBatchSizes[1] + ScenarioBatchSizes[2] + ScenarioBatchSizes[3])
     |-> MsgBody]

\* thread URLs: with and without a section id
UrlTopic12 == <<"t", "-", "1", "2">>
UrlTopic7  == <<"t", "-", "7", ".", "h", "t", "m", "l">>
UrlNoId    == <<"t">>

\* matched elements of a static page
ElemA     == [strings |-> <<"a">>,                     headings |-> <<>>]
ElemA2    == [strings |-> <<" ", "a", "\n">>,          headings |-> <<<<"h">>>>]
ElemB     == [strings |-> <<"b">>,                     headings |-> <<<<" ">>, <<"h">>>>]
ElemAB    == [strings |-> <<"a", " ", "\t", "b">>,     headings |-> <<>>]
ElemBlank == [strings |-> <<" ">>,                     headings |-> <<<<"h">>>>]
Elements  == {ElemA, ElemA2, ElemBlank}

\* the scenario of the deduplication test: three matched elements with different texts
\* and one that repeats a text
ScenarioPage == <<ElemA, ElemB, ElemAB, ElemA2>>
StaticPages  == SeqsUpTo(Elements, MaxElements) \cup {ScenarioPage}

\* nodes of a rendered page
TextNodes    == {<<" ">>, <<" ", "a", " ">>}
HeadingNodes == {<<>>, <<"h">>}

DigitChar(n) == CHOOSE c \in Digits : DigitValue(c) = n

\* the URL of the n-th page of a thread: the thread URL, then the next links
PageUrl(source_url, n) ==
  IF n = 1 THEN source_url ELSE source_url \o <<"/", DigitChar(n)>>

(***************************************************************************)
(* The states in which a part of the program is not running                *)
(***************************************************************************)
NoResult == [posts |-> <<>>, summary |-> <<>>, failed_urls |-> <<>>, returned |-> FALSE]

IdlePipe ==
  /\ urls = <<>> /\ idx = 0 /\ pc = "-" /\ page_count = 0 /\ all_posts = <<>>
  /\ failed_urls = <<>> /\ closed = 0 /\ quit_raised = FALSE /\ propagated = FALSE
  /\ result = NoResult
  /\ attempted = <<>> /\ raised = {}

IdleApi ==
  /\ apc = "-" /\ feed = <<>> /\ limit_count = 0 /\ max_messages = 0 /\ offset = 0
  /\ posts = <<>> /\ requests = <<>> /\ batches = <<>>

IdleParse ==
  /\ ppc = 0 /\ elements = <<>> /\ text_nodes = <<>> /\ heading_nodes = <<>>
  /\ parsed = <<>> /\ prev_parsed = <<>> /\ seen_text = {}

IdleUrl == upc = "-" /\ url = <<>> /\ section_id = Returned(0)

IdleScroll ==
  /\ spc = "-" /\ scroll_max = 0 /\ scroll_limit = 0 /\ attempts = 0 /\ loops = 0
  /\ last_height = 0 /\ last_count = 0 /\ dom_height = 0 /\ dom_count = 0
  /\ scrolls = <<>>

IdleAgg == gpc = "-" /\ agg_posts = <<>> /\ summary = <<>>

NoScores == [compound |-> [diff |-> 0, total |-> 1],
             pos |-> [num |-> 0, den |-> 1], neg |-> [num |-> 0, den |-> 1],
             neu |-> [num |-> 0, den |-> 1], label |-> "-"]

IdleSentiment ==
  /\ cpc = "-" /\ score_text = <<>> /\ score_cleaned = <<>> /\ scorer_calls = <<>>
  /\ scored = NoScores

IdlePages ==
  /\ fpc = "-" /\ max_pages = 0 /\ next_link = <<>> /\ current_url = 0
  /\ range_idx = 0 /\ http_requests = <<>> /\ yielded = <<>> /\ sleeps = 0

(***************************************************************************)
(* The backends on one thread: fetch_posts of the API backend request by   *)
(* request, parse_posts of the page backends page by page                  *)
(***************************************************************************)
InitBackends ==
  /\ IdlePipe /\ IdleScroll /\ IdleAgg
  /\ IdleSentiment /\ IdlePages
  /\ upc = "-" /\ section_id = Returned(0)
  /\ backend \in {"requests", "selenium", "api"}
  /\ IdleParse
  /\ offset = 0 /\ posts = <<>> /\ requests = <<>> /\ batches = <<>>
  /\ \/ /\ backend = "api"
        /\ apc = "start"
        /\ url \in {UrlTopic12, UrlNoId}
        /\ \/ /\ feed \in SeqsUpTo(Messages, MaxFeed)
              /\ limit_count \in 1..MaxLimit
              /\ max_messages \in 0..MaxCap
           \/ /\ url = UrlTopic12
              /\ feed = ScenarioFeed
              /\ limit_count = ScenarioLimit
              /\ max_messages = 0
     \/ /\ backend # "api"
        /\ apc = "-" /\ feed = <<>> /\ limit_count = 0 /\ max_messages = 0
        /\ url = UrlTopic12

\* fetch_posts line 26: section_id = parse_section_id(start_url)
ApiStart ==
  /\ backend = "api" /\ pc = "-" /\ apc = "start"
  /\ section_id' = parse_section_id(url)
  /\ apc' = IF section_id'.error THEN "raised" ELSE "loop"
  /\ UNCHANGED <<varsSentiment, varsPages,
                 varsPipe, varsParse, varsScroll, varsAgg, upc, url,
                 feed, limit_count, max_messages, offset, posts, requests, batches>>

\* one iteration of the loop of fetch_posts: the request (line 38) and the handling of
\* the batch it returns (lines 39-66)
ApiRequest ==
  /\ backend = "api" /\ pc = "-" /\ apc = "loop"
  /\ LET batch == ServerBatch(feed, offset, limit_count)
         st    == ApiIteration([pc |-> apc, offset |-> offset, posts |-> posts],
                               batch, url, limit_count, max_messages)
     IN  /\ requests' = Append(requests, offset)
         /\ batches' = Append(batches, batch)
         /\ apc' = st.pc
         /\ offset' = st.offset
         /\ posts' = st.posts
  /\ UNCHANGED <<varsSentiment, varsPages,
                 varsPipe, varsParse, varsScroll, varsAgg, varsUrl,
                 feed, limit_count, max_messages>>

\* the request fails: session.get or raise_for_status raises (lines 38-39)
ApiRequestFails ==
  /\ backend = "api" /\ pc = "-" /\ apc = "loop"
  /\ requests' = Append(requests, offset)
  /\ apc' = "raised"
  /\ UNCHANGED <<varsSentiment, varsPages,
                 varsPipe, varsParse, varsScroll, varsAgg, varsUrl,
                 feed, limit_count, max_messages, offset, posts, batches>>

\* MoneycontrolScraper.parse_posts on the next page of the thread
StaticParse ==
  /\ backend = "requests" /\ pc = "-" /\ ppc < MaxPages
  /\ \E els \in StaticPages :
       LET r == static_parse_posts(els, seen_text, PageUrl(url, ppc + 1), url)
       IN  /\ elements' = els
           /\ parsed' = r.posts
           /\ seen_text' = r.seen_text
  /\ prev_parsed' = parsed
  /\ ppc' = ppc + 1
  /\ UNCHANGED <<varsSentiment, varsPages,
                 varsPipe, varsApi, varsScroll, varsAgg, varsUrl,
                 text_nodes, heading_nodes>>

\* SeleniumMoneycontrolScraper.parse_posts on the next page of the thread
SeleniumParse ==
  /\ backend = "selenium" /\ pc = "-" /\ ppc < MaxPages
  /\ \E texts \in SeqsUpTo(TextNodes, MaxNodes) :
       \E headings \in SeqsUpTo(HeadingNodes, MaxNodes) :
         /\ text_nodes' = texts
         /\ heading_nodes' = headings
         /\ parsed' = selenium_parse_posts(texts, headings, PageUrl(url, ppc + 1), url)
  /\ ppc' = ppc + 1
  /\ UNCHANGED <<varsSentiment, varsPages,
                 varsPipe, varsApi, varsScroll, varsAgg, varsUrl, elements, seen_text,
                 prev_parsed>>

NextBackends ==
  \/ ApiStart
  \/ ApiRequest
  \/ ApiRequestFails
  \/ StaticParse
  \/ SeleniumParse

SpecBackends == InitBackends /\ [][NextBackends]_vars

(***************************************************************************)
(* Properties of the backends (checked under SpecBackends)                 *)
(***************************************************************************)
\* the elements of a sequence, as a set
Range(seq) == {seq[i] : i \in 1..Len(seq)}

\* the Posts a backend has emitted in the current state
Emitted == Range(posts) \cup Range(parsed) \cup Range(prev_parsed)

\* C5: no backend ever emits a Post whose heading and text are both empty: every Post
\* returned by parse_posts of the static and of the dynamic backend, and every Post
\* fetch_posts collects, has a non-empty text or a non-empty heading.
C5_NoEmptyPost == \A p \in Emitted : Truthy(p.text) \/ Truthy(p.heading)

\* C5 witness: the dynamic backend parsed a page on which one index has an empty
\* heading and an empty body and another index has text, and emitted the latter only.
C5_Witness ==
  /\ backend = "selenium" /\ ppc >= 1
  /\ \E i \in 1..Max(Len(text_nodes), Len(heading_nodes)) :
       /\ (i > Len(text_nodes) \/ clean_text(text_nodes[i]) = <<>>)
       /\ (i > Len(heading_nodes) \/ clean_text(heading_nodes[i]) = <<>>)
  /\ Len(parsed) >= 1
  /\ Len(parsed) < Max(Len(text_nodes), Len(heading_nodes))

\* a message with a non-empty heading or a non-empty body, after cleaning
HasContent(msg) ==
  \/ clean_text(IF msg.heading = None THEN <<>> ELSE msg.heading) # <<>>
  \/ clean_text(IF msg.message = None THEN <<>> ELSE msg.message) # <<>>

\* the messages of all fetched batches, in order
Fetched == Concat(batches)

\* requests were issued at offsets 0, L, 2L, ..., and every batch but the last one
\* fetched was neither empty nor shorter than L
PagedInOrder ==
  /\ \A i \in 1..Len(requests) : requests[i] = (i - 1) * limit_count
  /\ \A i \in 1..(Len(batches) - 1) : Len(batches[i]) >= limit_count

\* fetch_posts returned after a batch that was empty or shorter than L
StoppedAtShortBatch ==
  /\ Len(batches) = Len(requests)
  /\ Len(batches) >= 1
  /\ Len(batches[Len(batches)]) < limit_count

\* the scenario: batches of 100, 100 and 40 messages give 240 posts after 3 requests
ScenarioHolds ==
  (feed = ScenarioFeed /\ limit_count = ScenarioLimit /\ apc = "returned")
    => /\ Len(requests) = Len(ScenarioBatchSizes)
       /\ \A i \in 1..Len(batches) : Len(batches[i]) = ScenarioBatchSizes[i]
       /\ Len(posts) = Len(ScenarioFeed)

\* C6 as stated: with limit_count = L and no cap, fetch_posts requests offsets 0, L,
\* 2L, ... in order, stops after the first batch that is empty or shorter than L, and
\* returns the messages of all fetched batches in order (one Post per message).
C6_AllMessagesReturned ==
  (backend = "api" /\ max_messages = 0)
    => /\ PagedInOrder
       /\ apc = "returned"
            => /\ StoppedAtShortBatch
               /\ Len(posts) = Len(Fetched)
               /\ \A i \in 1..Len(posts) : posts[i] = ApiPost(Fetched[i], url)

\* C6 amended: as above, but the Posts returned are those of the fetched messages that
\* have a non-empty heading or body, in order; messages with both empty are skipped.
C6_Pagination ==
  (backend = "api" /\ max_messages = 0)
    => /\ PagedInOrder
       /\ apc = "loop" => Len(batches) = Len(requests)
       /\ apc = "returned"
            => /\ StoppedAtShortBatch
               /\ LET kept == SelectSeq(Fetched, HasContent)
                  IN  /\ Len(posts) = Len(kept)
                      /\ \A i \in 1..Len(posts) : posts[i] = ApiPost(kept[i], url)
       /\ ScenarioHolds

\* C6 witness: the scenario feed was fetched in three requests.
C6_Witness ==
  /\ backend = "api" /\ apc = "returned" /\ max_messages = 0
  /\ limit_count = ScenarioLimit
  /\ requests = <<0, ScenarioLimit, 2 * ScenarioLimit>>
  /\ Len(posts) = Len(ScenarioFeed)

\* the number of messages of the thread with a non-empty heading or body
ContentCount(thread) == Len(SelectSeq(thread, HasContent))

\* C7: when max_messages > 0, fetch_posts never holds more than max_messages posts,
\* returns exactly max_messages posts (the first ones with content) whenever the feed
\* holds at least that many messages with a non-empty heading or body, and issues no
\* request once the cap is reached: the last request is the one whose batch holds the
\* max_messages-th such message.
C7_MessageCap ==
  (backend = "api" /\ max_messages > 0)
    => /\ Len(posts) <= max_messages
       /\ Len(posts) = max_messages => apc = "returned"
       /\ (apc = "returned" /\ ContentCount(feed) >= max_messages)
            => /\ Len(posts) = max_messages
               /\ LET kept == SelectSeq(feed, HasContent)
                  IN  \A i \in 1..Len(posts) : posts[i] = ApiPost(kept[i], url)
               /\ LET last == requests[Len(requests)]
                  IN  /\ ContentCount(SubSeq(feed, 1, last)) < max_messages
                      /\ ContentCount(SubSeq(feed, 1, Min(last + limit_count, Len(feed))))
                           >= max_messages

\* C7 witness: fetch_posts returned max_messages posts and left messages of the thread
\* unrequested.
C7_Witness ==
  /\ backend = "api" /\ max_messages > 0 /\ apc = "returned"
  /\ Len(posts) = max_messages
  /\ Len(requests) >= 2
  /\ requests[Len(requests)] + limit_count < Len(feed)

\* the positions of the first occurrences of the non-empty texts of ts
FirstOccurrences(ts) ==
  {i \in 1..Len(ts) : ts[i] # <<>> /\ \A j \in 1..(i - 1) : ts[j] # ts[i]}

\* the k-th smallest element of a set of positions
KthOf(S, k) == CHOOSE i \in S : Cardinality({j \in S : j <= i}) = k

\* C10: one call of the static parse_posts emits exactly one Post per distinct
\* non-empty cleaned text among the matched elements, in first-occurrence order, so no
\* two Posts of a call have equal text, whatever an earlier call on the thread emitted.
C10_DedupPerCall ==
  (backend = "requests" /\ ppc >= 1)
    => LET cleaned == [i \in 1..Len(elements) |-> clean_text(elements[i].strings)]
           first   == FirstOccurrences(cleaned)
       IN  /\ Len(parsed) = Cardinality(first)
           /\ \A k \in 1..Len(parsed) : parsed[k].text = cleaned[KthOf(first, k)]
           /\ \A k, l \in 1..Len(parsed) : k # l => parsed[k].text # parsed[l].text
           /\ elements = ScenarioPage => Len(parsed) = Len(ScenarioPage) - 1

\* C10 witness: the second page of a thread is the scenario page (three texts and a
\* repeat), three Posts were emitted for it, and one of them has a text the first page
\* emitted too.
C10_Witness ==
  /\ backend = "requests" /\ ppc = 2
  /\ elements = ScenarioPage
  /\ Len(parsed) = 3
  /\ \E p \in Range(parsed) : \E q \in Range(prev_parsed) : p.text = q.text

(***************************************************************************)
(* pipeline.py                                                             *)
(***************************************************************************)
\* the dict _append_posts appends for one Post (lines 119-136)
Enriched(post) ==
  LET content == JoinWith(<<" ">>, SelectTruthy(<<post.heading, post.text>>))
      sent    == score(IF content # <<>> THEN content ELSE post.text)
  IN  [source_url |-> post.source_url, page_url |-> post.page_url,
       heading |-> post.heading, text |-> post.text,
       sentiment_compound |-> sent.compound, sentiment_label |-> sent.label,
       sentiment_pos |-> sent.pos, sentiment_neg |-> sent.neg,
       sentiment_neu |-> sent.neu]

\* _append_posts(container, posts, analyzer): the container after the call
_append_posts(container, ps) == container \o [i \in 1..Len(ps) |-> Enriched(ps[i])]

\* the keys of `grouped` in insertion order: the source_url values of posts in the
\* order of their first occurrence (lines 91-93)
GroupKeys(ps) ==
  LET first == {i \in 1..Len(ps) :
                  \A j \in 1..(i - 1) : ps[j].source_url # ps[i].source_url}
  IN  [k \in 1..Cardinality(first) |->
         ps[CHOOSE i \in first : Cardinality({j \in first : j <= i}) = k].source_url]

\* grouped[url] (lines 91-93)
Group(ps, u) ==
  LET InGroup(q) == q.source_url = u
  IN  SelectSeq(ps, InGroup)

CountLabel(group, label) ==
  Cardinality({i \in 1..Len(group) : group[i].sentiment_label = label})

\* a variant that forgets the negative posts
NeutralCountNoNeg(count, pos, neg) == count - pos
\* line 103: neutral = count - pos - neg
NeutralCount(count, pos, neg) == count - pos - neg

\* the dict aggregate appends for one group (lines 97-113); avg_compound, a sum of
\* compound scores over count, is kept as its terms and its divisor
SourceSummary(u, group) ==
  LET count   == Len(group)
      pos     == CountLabel(group, "positive")
      neg     == CountLabel(group, "negative")
      neutral == NeutralCount(count, pos, neg)
  IN  [source_url |-> u,
       posts |-> count,
       avg_compound |-> [terms |-> [i \in 1..count |-> group[i].sentiment_compound],
                         den |-> count],
       positive_ratio |-> [num |-> pos, den |-> count],
       negative_ratio |-> [num |-> neg, den |-> count],
       neutral_ratio |-> [num |-> neutral, den |-> count]]

\* aggregate(posts): `if not count: continue` (line 98) drops no group, since a key of
\* grouped has at least the post that created it
aggregate(ps) ==
  LET keys      == GroupKeys(ps)
      all       == [k \in 1..Len(keys) |-> SourceSummary(keys[k], Group(ps, keys[k]))]
      NonZero(g) == g.posts # 0
  IN  SelectSeq(all, NonZero)

\* a variant in which no backend is closed
NoCloseMethod(b) == FALSE
\* line 74: hasattr(scraper, "close"); only SeleniumMoneycontrolScraper defines close
HasClose(b) == b = "selenium"

\* SeleniumMoneycontrolScraper.close (selenium_scraper.py lines 103-107): whether the
\* call raises, given whether driver.quit() raised; the except clause swallows it
CloseRaises(quit_raises) == FALSE

\* pipeline.py lines 75-78: `except Exception: pass` catches whatever close() raises
EscapesFinally(close_raises) == FALSE

\* a variant that does not record the failed URL
DropFailure(failed, u) == failed
\* lines 57 and 72: failed_urls.append(url)
RecordFailure(failed, u) == Append(failed, u)

RECURSIVE FetchLoop(_, _, _, _, _, _, _)
\* the loop of fetch_posts (api_scraper.py lines 30-66) run to its end on a thread,
\* the n-th request being the next one; request number fail_at raises (0: none does)
FetchLoop(st, thread, start_url, count, cap, fail_at, n) ==
  IF n = fail_at THEN [raises |-> TRUE, posts |-> <<>>]
  ELSE LET nxt == ApiIteration(st, ServerBatch(thread, st.offset, count),
                               start_url, count, cap)
       IN  IF nxt.pc = "returned" THEN [raises |-> FALSE, posts |-> nxt.posts]
           ELSE FetchLoop(nxt, thread, start_url, count, cap, fail_at, n + 1)

\* ApiMoneycontrolScraper.fetch_posts(start_url): the list returned, or that it raised
fetch_posts(start_url, thread, count, cap, fail_at) ==
  IF parse_section_id(start_url).error THEN [raises |-> TRUE, posts |-> <<>>]
  ELSE FetchLoop([pc |-> "loop", offset |-> 0, posts |-> <<>>],
                 thread, start_url, count, cap, fail_at, 1)

\* what the orchestrator is given: thread URLs, pages and feeds
PipeUrls  == {UrlTopic12, UrlNoId}
PipePages == { [elements |-> <<ElemA, ElemBlank, ElemA2>>,
                text_nodes |-> <<<<"a">>, <<>>>>, heading_nodes |-> <<<<"h">>, <<>>>>],
               [elements |-> <<>>, text_nodes |-> <<>>, heading_nodes |-> <<>>] }
PipeFeeds == {<<>>, <<MsgBody, MsgEmpty, MsgHeading>>}

InitPipeline ==
  /\ IdleParse /\ IdleUrl /\ IdleScroll /\ IdleAgg
  /\ IdleSentiment /\ IdlePages
  /\ apc = "-" /\ feed = <<>> /\ offset = 0 /\ posts = <<>> /\ requests = <<>>
  /\ batches = <<>>
  /\ backend \in {"requests", "selenium", "api"}
  /\ IF backend = "api"
     THEN limit_count \in {1, 2} /\ max_messages \in {0, 1}
     ELSE limit_count = 0 /\ max_messages = 0
  /\ urls \in SeqsUpTo(PipeUrls, MaxUrls)
  /\ idx = 0 /\ pc = "loop" /\ page_count = 0 /\ all_posts = <<>>
  /\ failed_urls = <<>> /\ closed = 0 /\ quit_raised = FALSE /\ propagated = FALSE
  /\ result = NoResult /\ attempted = <<>> /\ raised = {}

\* the for loop takes the next URL (lines 49 and 59) and enters its try block
StartUrl ==
  /\ pc = "loop" /\ idx < Len(urls)
  /\ idx' = idx + 1
  /\ attempted' = Append(attempted, urls[idx + 1])
  /\ page_count' = 0
  /\ pc' = IF backend = "api" THEN "fetch_posts"
           ELSE IF MaxPages = 0 THEN "loop" ELSE "fetch_pages"
  /\ UNCHANGED <<varsSentiment, varsPages,
                 backend, urls, all_posts, failed_urls, closed, quit_raised, propagated,
                 result, raised, varsApi, varsParse, varsUrl, varsScroll, varsAgg>>

\* fetch_pages yields the next page of the thread, and the loop body (lines 63-68)
\* parses it and appends its posts; the generator ends when the page has no next link
\* or max_pages pages were fetched (scraper.py lines 46-55)
FetchPage ==
  /\ pc = "fetch_pages" /\ page_count < MaxPages
  /\ \E page \in PipePages : \E has_next \in BOOLEAN :
       LET source_url == urls[idx]
           page_url   == PageUrl(source_url, page_count + 1)
           ps == IF backend = "selenium"
                 THEN selenium_parse_posts(page.text_nodes, page.heading_nodes,
                                           page_url, source_url)
                 ELSE static_parse_posts(page.elements, {}, page_url, source_url).posts
       IN  /\ all_posts' = _append_posts(all_posts, ps)
           /\ page_count' = page_count + 1
           /\ pc' = IF has_next /\ page_count + 1 < MaxPages
                    THEN "fetch_pages" ELSE "loop"
  /\ UNCHANGED <<varsSentiment, varsPages,
                 backend, urls, idx, failed_urls, closed, quit_raised, propagated,
                 result, attempted, raised, varsApi, varsParse, varsUrl, varsScroll,
                 varsAgg>>

\* fetching the next page raises (a transport error, a timeout): the except clause of
\* lines 70-72 records the URL
FetchPageFails ==
  /\ pc = "fetch_pages" /\ page_count < MaxPages
  /\ failed_urls' = RecordFailure(failed_urls, urls[idx])
  /\ raised' = raised \cup {idx}
  /\ pc' = "loop"
  /\ UNCHANGED <<varsSentiment, varsPages,
                 backend, urls, idx, page_count, all_posts, closed, quit_raised,
                 propagated, result, attempted, varsApi, varsParse, varsUrl, varsScroll,
                 varsAgg>>

\* the API backend: fetch_posts(url) on some thread, one of its requests possibly
\* raising; lines 52-53 on a return, lines 55-57 on an exception
FetchPosts ==
  /\ pc = "fetch_posts"
  /\ \E thread \in PipeFeeds : \E fail_at \in 0..(Len(thread) + 1) :
       LET r == fetch_posts(urls[idx], thread, limit_count, max_messages, fail_at)
       IN  IF r.raises
           THEN /\ failed_urls' = RecordFailure(failed_urls, urls[idx])
                /\ raised' = raised \cup {idx}
                /\ UNCHANGED all_posts
           ELSE /\ all_posts' = _append_posts(all_posts, r.posts)
                /\ UNCHANGED <<failed_urls, raised>>
  /\ pc' = "loop"
  /\ UNCHANGED <<varsSentiment, varsPages,
                 backend, urls, idx, page_count, closed, quit_raised, propagated,
                 result, attempted, varsApi, varsParse, varsUrl, varsScroll, varsAgg>>

\* the finally block (lines 73-78), entered when the for loop is exhausted
Finally ==
  /\ pc = "loop" /\ idx = Len(urls)
  /\ IF HasClose(backend)
     THEN \E quit_raises \in BOOLEAN :
            /\ closed' = closed + 1
            /\ quit_raised' = quit_raises
            /\ propagated' = EscapesFinally(CloseRaises(quit_raises))
     ELSE UNCHANGED <<closed, quit_raised, propagated>>
  /\ pc' = "aggregate"
  /\ UNCHANGED <<varsSentiment, varsPages,
                 backend, urls, idx, page_count, all_posts, failed_urls, result,
                 attempted, raised, varsApi, varsParse, varsUrl, varsScroll, varsAgg>>

\* lines 80-87: aggregate and return (posts_out and summary_out are None)
Return ==
  /\ pc = "aggregate"
  /\ result' = [posts |-> all_posts, summary |-> aggregate(all_posts),
                failed_urls |-> failed_urls, returned |-> TRUE]
  /\ pc' = "done"
  /\ UNCHANGED <<varsSentiment, varsPages,
                 backend, urls, idx, page_count, all_posts, failed_urls, closed,
                 quit_raised, propagated, attempted, raised, varsApi, varsParse,
                 varsUrl, varsScroll, varsAgg>>

Next ==
  \/ StartUrl
  \/ FetchPage
  \/ FetchPageFails
  \/ FetchPosts
  \/ Finally
  \/ Return

Init == InitPipeline

Spec == Init /\ [][Next]_vars

(***************************************************************************)
(* Properties of run_pipeline (checked under Spec)                         *)
(***************************************************************************)
\* the subsequence of us at the positions in S, in order
SubsequenceAt(us, S) ==
  LET at == S \cap (1..Len(us))
  IN  [k \in 1..Cardinality(at) |-> us[KthOf(at, k)]]

\* C1: partial-failure semantics: whichever URLs raise, with any backend, every URL is
\* attempted once in input order, run_pipeline does not raise, and the returned
\* failed_urls is exactly the subsequence of the URLs whose processing raised.
C1_PartialFailure ==
  /\ attempted = SubSeq(urls, 1, idx)
  /\ failed_urls = SubsequenceAt(urls, raised)
  /\ ~propagated
  /\ pc = "done" => /\ attempted = urls
                    /\ result.returned
                    /\ result.failed_urls = SubsequenceAt(urls, raised)

\* C1 witness: of two URLs the first raised, the second was still processed and gave
\* posts, and run_pipeline returned.
C1_Witness ==
  /\ pc = "done" /\ Len(urls) = 2 /\ raised = {1}
  /\ result.failed_urls = <<urls[1]>>
  /\ \E p \in Range(result.posts) : p.source_url = urls[2]

\* C2: the run-wide collection holds no post of a URL whose processing raised (unless
\* the same URL was also processed successfully at another position of the input):
\* every post in it comes from a URL whose processing has completed without raising.
C2_NoPostsOfFailedUrl ==
  pc = "done"
    => \A p \in Range(result.posts) :
         \E i \in (1..Len(urls)) \ raised : urls[i] = p.source_url

\* the state part of C3: the number of close() calls at each position, and the result
C3_CloseState ==
  backend = "selenium"
    => /\ pc \in {"loop", "fetch_pages", "fetch_posts"} => closed = 0
       /\ pc \in {"aggregate", "done"} => closed = 1 /\ idx = Len(urls)
       /\ ~propagated
       /\ pc = "done" => /\ result.returned
                         /\ result.posts = all_posts
                         /\ result.failed_urls = failed_urls
                         /\ result.failed_urls = SubsequenceAt(urls, raised)

\* C3: with a backend that has close(), close() is called exactly once, after the last
\* URL has been processed, whether URLs failed or not; an exception inside it does not
\* propagate and leaves the posts, the summary and failed_urls as they were.
C3_CloseOnce ==
  /\ []C3_CloseState
  /\ [][(backend = "selenium" /\ closed' # closed)
         => /\ closed = 0 /\ idx = Len(urls) /\ pc = "loop"
            /\ all_posts' = all_posts /\ failed_urls' = failed_urls
            /\ aggregate(all_posts') = aggregate(all_posts)]_vars

\* C3 witness: a run of the dynamic backend in which a URL failed and another gave
\* posts, driver.quit() raised inside close(), and run_pipeline returned.
C3_Witness ==
  /\ backend = "selenium" /\ pc = "done" /\ quit_raised /\ closed = 1
  /\ raised # {} /\ result.posts # <<>> /\ result.returned

(***************************************************************************)
(* aggregate on its own: any list of enriched posts                        *)
(***************************************************************************)
\* enriched posts as aggregate reads them: source_url, sentiment_compound and
\* sentiment_label, the label being label_from_compound of the compound
CompoundSamples == {[diff |-> 1, total |-> 1], [diff |-> -1, total |-> 4],
                    [diff |-> 0, total |-> 2]}
EnrichedSamples ==
  {[source_url |-> u, sentiment_compound |-> c,
    sentiment_label |-> label_from_compound(c)] :
     u \in {UrlTopic12, UrlTopic7}, c \in CompoundSamples}

InitAggregate ==
  /\ IdlePipe /\ backend = "-" /\ IdleApi /\ IdleParse /\ IdleUrl /\ IdleScroll
  /\ IdleSentiment /\ IdlePages
  /\ gpc = "start"
  /\ agg_posts \in SeqsUpTo(EnrichedSamples, MaxPosts)
  /\ summary = <<>>

\* summary = aggregate(all_posts)
Aggregate ==
  /\ gpc = "start"
  /\ summary' = aggregate(agg_posts)
  /\ gpc' = "done"
  /\ UNCHANGED <<varsSentiment, varsPages,
                 varsPipe, varsApi, varsParse, varsUrl, varsScroll, agg_posts>>

NextAggregate == Aggregate

SpecAggregate == InitAggregate /\ [][NextAggregate]_vars

\* the posts of ps with source_url u, and those among them with a label
PostsOf(ps, u) == {i \in 1..Len(ps) : ps[i].source_url = u}
Labelled(ps, u, label) == {i \in PostsOf(ps, u) : ps[i].sentiment_label = label}

RECURSIVE SumPosts(_)
SumPosts(sm) == IF sm = <<>> THEN 0 ELSE Head(sm).posts + SumPosts(Tail(sm))

\* C4: aggregate gives exactly one SourceSummary per distinct source_url of the posts
\* and none with posts = 0; for a group of N posts, P positive and Ng negative:
\* posts = N, positive_ratio = P/N, negative_ratio = Ng/N, neutral_ratio = (N-P-Ng)/N,
\* so the ratios sum to 1; and the posts counts sum to the number of posts.
C4_Aggregate ==
  gpc = "done"
    => /\ {summary[k].source_url : k \in 1..Len(summary)}
            = {agg_posts[i].source_url : i \in 1..Len(agg_posts)}
       /\ \A k, l \in 1..Len(summary) :
            k # l => summary[k].source_url # summary[l].source_url
       /\ \A k \in 1..Len(summary) :
            LET sm == summary[k]
                N  == Cardinality(PostsOf(agg_posts, sm.source_url))
                P  == Cardinality(Labelled(agg_posts, sm.source_url, "positive"))
                Ng == Cardinality(Labelled(agg_posts, sm.source_url, "negative"))
            IN  /\ sm.posts = N /\ N >= 1
                /\ sm.positive_ratio = [num |-> P, den |-> N]
                /\ sm.negative_ratio = [num |-> Ng, den |-> N]
                /\ sm.neutral_ratio = [num |-> N - P - Ng, den |-> N]
                /\ sm.neutral_ratio.num >= 0
                /\ sm.positive_ratio.num + sm.negative_ratio.num
                     + sm.neutral_ratio.num = N
       /\ SumPosts(summary) = Len(agg_posts)

\* C4 witness: two source URLs were summarised, one of them with a positive and a
\* negative post.
C4_Witness ==
  /\ gpc = "done" /\ Len(summary) = 2
  /\ \E k \in 1..2 : /\ summary[k].positive_ratio.num = 1
                     /\ summary[k].negative_ratio.num = 1
                     /\ summary[k].posts = 2

(***************************************************************************)
(* parse_section_id on its own: any URL                                    *)
(***************************************************************************)
UrlChars   == {"t", "/", "-", "1", "2"}
HtmlSuffix == <<".", "h", "t", "m", "l">>

InitUrl ==
  /\ IdlePipe /\ backend = "-" /\ IdleApi /\ IdleParse /\ IdleScroll /\ IdleAgg
  /\ IdleSentiment /\ IdlePages
  /\ upc = "start"
  /\ \E body \in SeqsUpTo(UrlChars, MaxUrlLen) : \E suffix \in {<<>>, HtmlSuffix} :
       url = body \o suffix
  /\ section_id = Returned(0)

\* a call parse_section_id(url)
ParseSectionId ==
  /\ upc = "start"
  /\ section_id' = parse_section_id(url)
  /\ upc' = "done"
  /\ UNCHANGED <<varsSentiment, varsPages,
                 varsPipe, varsApi, varsParse, varsScroll, varsAgg, url>>

NextUrl == ParseSectionId

SpecUrl == InitUrl /\ [][NextUrl]_vars

EndsWith(s, suffix) ==
  Len(s) >= Len(suffix) /\ SubSeq(s, Len(s) - Len(suffix) + 1, Len(s)) = suffix

\* the URL without a final ".html"
Stem(u) == IF EndsWith(u, HtmlSuffix) THEN SubSeq(u, 1, Len(u) - Len(HtmlSuffix)) ELSE u

\* the start of the run of digits that ends s (Len(s) + 1 when s ends with no digit)
TrailingDigitsStart(s) ==
  CHOOSE i \in 1..(Len(s) + 1) :
    /\ \A k \in i..Len(s) : s[k] \in Digits
    /\ (i = 1 \/ s[i - 1] \notin Digits)

\* the URL has a trailing numeric segment: digits that follow a '-' and stand at the
\* end of the URL or immediately before a final ".html"
HasTrailingSegment(u) ==
  LET st == Stem(u)
      i  == TrailingDigitsStart(st)
  IN  i <= Len(st) /\ i > 1 /\ st[i - 1] = "-"

TrailingSegmentValue(u) ==
  LET st == Stem(u)
  IN  IntOf(SubSeq(st, TrailingDigitsStart(st), Len(st)))

\* C8: parse_section_id(url) returns the integer value of the URL's trailing numeric
\* segment, and raises ValueError for every URL that has no such trailing segment,
\* including URLs that contain '-<digits>' only earlier in the path.
C8_TrailingSegment ==
  upc = "done"
    => IF HasTrailingSegment(url)
       THEN section_id = Returned(TrailingSegmentValue(url))
       ELSE section_id = ValueError

(***************************************************************************)
(* selenium_scraper.py: _scroll_to_load_more                               *)
(***************************************************************************)
InitScroll ==
  /\ IdlePipe /\ backend = "-" /\ IdleApi /\ IdleParse /\ IdleUrl /\ IdleAgg
  /\ IdleSentiment /\ IdlePages
  /\ spc = "start"
  /\ scroll_max \in 0..MaxScrollMax
  /\ scroll_limit \in 0..MaxScrollLimit
  /\ attempts = 0 /\ loops = 0 /\ last_height = 0 /\ last_count = 0
  /\ dom_height = 1 /\ dom_count = 1
  /\ scrolls = <<>>

\* lines 114-117: the locals are set, the height and the count read from the page
ScrollStart ==
  /\ spc = "start"
  /\ attempts' = 0
  /\ loops' = 0
  /\ last_height' = dom_height
  /\ last_count' = dom_count
  /\ spc' = "loop"
  /\ UNCHANGED <<varsSentiment, varsPages,
                 varsPipe, varsApi, varsParse, varsUrl, varsAgg, scroll_max,
                 scroll_limit, dom_height, dom_count, scrolls>>

\* lines 123-130: attempts after the wait for more posts
AfterWait(att, found_more) == IF found_more THEN 0 ELSE att + 1

\* lines 132-134: attempts after the comparison of the heights
AfterHeight(att, new_height, old_height) ==
  IF new_height = old_height THEN att + 1 ELSE att

\* a variant of the loop condition that admits one iteration more
ScrollContinuesOneMore(att, lp, mx, lim) == att < mx /\ lp <= lim

\* line 119: the condition of the while loop
ScrollContinues(att, lp, mx, lim) == att < mx /\ lp < lim

\* one iteration of the while loop (lines 119-136): the scroll, the wait during which
\* the page loads more posts or not, and the comparison of the page heights
ScrollIteration ==
  /\ spc = "loop"
  /\ ScrollContinues(attempts, loops, scroll_max, scroll_limit)
  /\ \E more \in BOOLEAN : \E taller \in BOOLEAN :
       /\ dom_count' = IF more THEN dom_count + 1 ELSE dom_count
       /\ dom_height' = IF taller THEN dom_height + 1 ELSE dom_height
       /\ scrolls' = Append(scrolls, [count_increased |-> more,
                                      height_changed  |-> taller])
  /\ loops' = loops + 1
  /\ LET found_more == dom_count' > last_count
     IN  /\ last_count' = IF found_more THEN dom_count' ELSE last_count
         /\ attempts' = AfterHeight(AfterWait(attempts, found_more),
                                    dom_height', last_height)
  /\ last_height' = IF dom_height' = last_height THEN last_height ELSE dom_height'
  /\ UNCHANGED <<varsSentiment, varsPages,
                 varsPipe, varsApi, varsParse, varsUrl, varsAgg, spc, scroll_max,
                 scroll_limit>>

\* line 119: the loop condition fails and _scroll_to_load_more returns
ScrollReturn ==
  /\ spc = "loop"
  /\ ~ScrollContinues(attempts, loops, scroll_max, scroll_limit)
  /\ spc' = "done"
  /\ UNCHANGED <<varsSentiment, varsPages,
                 varsPipe, varsApi, varsParse, varsUrl, varsAgg, scroll_max,
                 scroll_limit, attempts, loops, last_height, last_count, dom_height,
                 dom_count, scrolls>>

NextScroll ==
  \/ ScrollStart
  \/ ScrollIteration
  \/ ScrollReturn

SpecScroll == InitScroll /\ [][NextScroll]_vars

\* the count and the height increased on each of the first k scrolls, and neither
\* changed on any later scroll
ProgressThenNone(k) ==
  /\ k <= Len(scrolls)
  /\ \A i \in 1..k : scrolls[i].count_increased /\ scrolls[i].height_changed
  /\ \A i \in (k + 1)..Len(scrolls) :
       ~scrolls[i].count_increased /\ ~scrolls[i].height_changed

\* C9: if the matched-post count and the page height increase on each of the first k
\* scrolls and neither changes afterwards, the loop performs exactly k + scroll_max
\* scrolls before it stops, provided k + scroll_max <= scroll_limit.
C9_ScrollCount ==
  \A k \in 0..MaxScrollLimit :
    (spc = "done" /\ ProgressThenNone(k) /\ k + scroll_max <= scroll_limit)
      => loops = k + scroll_max

\* C14: in each iteration of the loop the no-progress counter attempts is incremented,
\* by exactly one, if and only if neither the matched-post count increased nor the
\* page height changed in that iteration; in every other iteration it is not
\* incremented.
C14_NoProgressIncrement ==
  [][loops' = loops + 1
       => LET it == scrolls'[Len(scrolls')]
          IN  IF ~it.count_increased /\ ~it.height_changed
              THEN attempts' = attempts + 1
              ELSE attempts' <= attempts]_vars

\* _scroll_to_load_more as sequential code: a step that can be taken is taken (the
\* wait of each iteration is bounded by the timeout)
SpecScrollFair == SpecScroll /\ WF_vars(NextScroll)

\* the loop is left exactly when its condition fails: a step from the loop is the
\* return if and only if attempts has reached scroll_max or loops scroll_limit
StopsExactlyAtLimit ==
  [][spc = "loop"
       => ((spc' = "done") <=> (attempts >= scroll_max \/ loops >= scroll_limit))]_vars

\* C15: _scroll_to_load_more terminates for every behaviour of the page; it never
\* performs more than scroll_limit iterations, and it stops exactly when the
\* no-progress counter has reached scroll_max or scroll_limit iterations are done.
C15_ScrollTerminates ==
  /\ <>(spc = "done")
  /\ [](loops <= scroll_limit /\ Len(scrolls) = loops)
  /\ StopsExactlyAtLimit

\* every scroll loaded new posts and changed the height, and the loop was stopped by
\* the iteration cap alone
C15_Witness ==
  /\ spc = "done"
  /\ scroll_limit >= 2 /\ loops = scroll_limit
  /\ attempts = 0 /\ scroll_max > 0
  /\ \A i \in 1..Len(scrolls) : scrolls[i].count_increased /\ scrolls[i].height_changed

(***************************************************************************)
(* sentiment.py: a call of SentimentAnalyzer.score, or of                  *)
(* simple_lexicon_score on its own, on any text                            *)
(***************************************************************************)
MaxPieces == 3

\* the pieces the texts are made of: lexicon words in both cases, a word outside the
\* lexicons, the letter w, an apostrophe, punctuation and white space
TextPieces ==
  { <<"b","u","y">>, <<"S","e","l","l">>, <<"o","k">>, <<"w">>, <<"'">>, <<"!">>,
    <<" ">> }

Texts == {Concat(ps) : ps \in SeqsUpTo(TextPieces, MaxPieces)}

InitSentiment ==
  /\ IdlePipe /\ backend = "-" /\ IdleApi /\ IdleParse /\ IdleUrl /\ IdleScroll
  /\ IdleAgg /\ IdlePages
  /\ cpc \in {"score", "simple_lexicon_score"}
  /\ score_text \in Texts
  /\ score_cleaned = <<>> /\ scorer_calls = <<>> /\ scored = NoScores

\* score lines 29-31: the text is reduced, and the fixed dict returned if nothing is left
ScoreClean ==
  /\ cpc = "score"
  /\ score_cleaned' = Cleaned(score_text)
  /\ IF score_cleaned' = <<>>
     THEN scored' = FixedResult /\ cpc' = "done"
     ELSE scored' = scored /\ cpc' = "fallback"
  /\ UNCHANGED <<varsPipe, varsApi, varsParse, varsUrl, varsScroll, varsAgg, varsPages,
                 score_text, scorer_calls>>

\* score lines 41-44: self._vader is None, simple_lexicon_score(cleaned) is called
ScoreFallback ==
  /\ cpc = "fallback"
  /\ scorer_calls' = Append(scorer_calls, score_cleaned)
  /\ scored' = Fallback(score_cleaned)
  /\ cpc' = "done"
  /\ UNCHANGED <<varsPipe, varsApi, varsParse, varsUrl, varsScroll, varsAgg, varsPages,
                 score_text, score_cleaned>>

\* a call simple_lexicon_score(score_text)
LexiconScore ==
  /\ cpc = "simple_lexicon_score"
  /\ scorer_calls' = Append(scorer_calls, score_text)
  /\ LET scores == simple_lexicon_score(score_text)
     IN  scored' = [compound |-> scores.compound, pos |-> scores.pos,
                    neg |-> scores.neg, neu |-> scores.neu, label |-> "-"]
  /\ cpc' = "returned"
  /\ UNCHANGED <<varsPipe, varsApi, varsParse, varsUrl, varsScroll, varsAgg, varsPages,
                 score_text, score_cleaned>>

NextSentiment ==
  \/ ScoreClean
  \/ ScoreFallback
  \/ LexiconScore

SpecSentiment == InitSentiment /\ [][NextSentiment]_vars

\* the characters of word-like tokens: letters, digits, the underscore and the
\* apostrophe
WordChars ==
  {UpperCase[i] : i \in 1..Len(UpperCase)} \cup {LowerCase[i] : i \in 1..Len(LowerCase)}
    \cup Digits \cup {"_", "'"}

\* the word-like tokens of a text: its maximal runs of word characters
WordTokens(s) == RunsIn(s, WordChars, <<>>)

\* C11: score reduces its input to the space-joined sequence of its word-like tokens
\* (maximal runs of alphanumeric characters and apostrophes); it returns the fixed
\* neutral result without calling the scorer if and only if that sequence is empty,
\* and otherwise the scorer is called once with all the word tokens of the text.
C11_WordTokens ==
  cpc = "done"
    => LET words == JoinWith(<<" ">>, WordTokens(score_text))
       IN  /\ score_cleaned = words
           /\ (scored = FixedResult /\ scorer_calls = <<>>) <=> (words = <<>>)
           /\ words # <<>> => scorer_calls = <<words>>

\* C12: the compound simple_lexicon_score returns for a text is within [-1, 1]:
\* (pos_hits - neg_hits)^2 <= max(total_tokens, 1).
C12_CompoundInRange ==
  cpc = "returned"
    => scored.compound.diff * scored.compound.diff <= scored.compound.total

(***************************************************************************)
(* scraper.py: one iteration of the generator fetch_pages(start_url).  The *)
(* pages of the thread are numbered from 1, the start URL is page 1, and    *)
(* next_link[p] is the page the next link of page p leads to.               *)
(***************************************************************************)
MaxThread == 3

\* _find_next_page returns None
NoLink == 0

\* a variant of the range whose bound is one too large
RangeHasNextOffByOne(taken, limit) == taken <= limit

\* line 46: range(self.max_pages) yields another value
RangeHasNext(taken, limit) == taken < limit

\* _find_next_page(html, current_url) on page p of the thread: the absolute URL of the
\* first next link with an href, None without one
_find_next_page(thread, p) == thread[p]

InitPages ==
  /\ IdlePipe /\ backend = "-" /\ IdleApi /\ IdleParse /\ IdleUrl /\ IdleScroll
  /\ IdleAgg /\ IdleSentiment
  /\ fpc = "loop"
  /\ max_pages \in 0..MaxThread
  /\ next_link \in [1..MaxThread -> {NoLink} \cup (1..MaxThread)]
  /\ current_url = 1
  /\ range_idx = 0 /\ http_requests = <<>> /\ yielded = <<>> /\ sleeps = 0

\* lines 46-50: the next value of the range is taken, the page requested and yielded
PageRequest ==
  /\ fpc = "loop" /\ RangeHasNext(range_idx, max_pages)
  /\ range_idx' = range_idx + 1
  /\ http_requests' = Append(http_requests, current_url)
  /\ yielded' = Append(yielded, current_url)
  /\ fpc' = "yielded"
  /\ UNCHANGED <<varsPipe, varsApi, varsParse, varsUrl, varsScroll, varsAgg,
                 varsSentiment, max_pages, next_link, current_url, sleeps>>

\* lines 46-48: session.get or raise_for_status raises, nothing is yielded
PageRequestFails ==
  /\ fpc = "loop" /\ RangeHasNext(range_idx, max_pages)
  /\ range_idx' = range_idx + 1
  /\ http_requests' = Append(http_requests, current_url)
  /\ fpc' = "raised"
  /\ UNCHANGED <<varsPipe, varsApi, varsParse, varsUrl, varsScroll, varsAgg,
                 varsSentiment, max_pages, next_link, current_url, yielded, sleeps>>

\* lines 51-55: the consumer asks for the next page; the next link is looked up, and
\* the loop is left without one
PageResume ==
  /\ fpc = "yielded"
  /\ LET next_url == _find_next_page(next_link, current_url)
     IN  IF next_url = NoLink
         THEN fpc' = "done" /\ UNCHANGED <<current_url, sleeps>>
         ELSE /\ current_url' = next_url
              /\ sleeps' = sleeps + 1
              /\ fpc' = "loop"
  /\ UNCHANGED <<varsPipe, varsApi, varsParse, varsUrl, varsScroll, varsAgg,
                 varsSentiment, max_pages, next_link, range_idx, http_requests, yielded>>

\* line 46: the range is exhausted and the generator ends
PagesExhausted ==
  /\ fpc = "loop" /\ ~RangeHasNext(range_idx, max_pages)
  /\ fpc' = "done"
  /\ UNCHANGED <<varsPipe, varsApi, varsParse, varsUrl, varsScroll, varsAgg,
                 varsSentiment, max_pages, next_link, current_url, range_idx,
                 http_requests, yielded, sleeps>>

\* the consumer leaves its for loop on an exception of the loop body and the
\* suspended generator is never resumed
PageAbandon ==
  /\ fpc = "yielded"
  /\ fpc' = "closed"
  /\ UNCHANGED <<varsPipe, varsApi, varsParse, varsUrl, varsScroll, varsAgg,
                 varsSentiment, max_pages, next_link, current_url, range_idx,
                 http_requests, yielded, sleeps>>

NextPages ==
  \/ PageRequest
  \/ PageRequestFails
  \/ PageResume
  \/ PagesExhausted
  \/ PageAbandon

SpecPages == InitPages /\ [][NextPages]_vars

\* C13: for every structure of next links, one iteration of fetch_pages issues at most
\* max_pages requests, exactly one per yielded page (and one more only for a request
\* that raised), none after the first page without a next link, and none when
\* max_pages is 0.
C13_PaginationBound ==
  /\ Len(http_requests) <= max_pages
  /\ Len(http_requests) = Len(yielded) + (IF fpc = "raised" THEN 1 ELSE 0)
  /\ \A i \in 1..Len(yielded) : http_requests[i] = yielded[i]
  /\ \A i \in 1..Len(http_requests) :
       \A j \in 1..(i - 1) : _find_next_page(next_link, http_requests[j]) # NoLink
  /\ max_pages = 0 => http_requests = <<>>

\* a thread whose first page links to itself was iterated to the end: max_pages
\* requests, all of page 1
C13_Witness ==
  /\ fpc = "done"
  /\ next_link[1] = 1
  /\ max_pages >= 2
  /\ http_requests = [i \in 1..max_pages |-> 1]
  /\ yielded = http_requests

====
